---- MODULE Spec2Model ----
(***************************************************************************)
(* A model of the syntactic front end of hasdrubal/hanno: the EOL          *)
(* inference pass (hanno/lex/eol_inference.py) and the Pratt parser        *)
(* (hanno/parse.py).  Tokens are records [span, type_, value]; a value is  *)
(* a sequence of characters and None is the empty sequence (the tokenizer  *)
(* never produces an empty lexeme).                                        *)
(***************************************************************************)
EXTENDS Integers, Sequences, FiniteSets, TLC

VARIABLES source, pc, pass, stream, pos, out, has_run, paren_stack_size,
          prev_token, token, ptoks, ppos, exprs, result,
          scopes, outcome, curry_args, curry_result

vars == <<source, pc, pass, stream, pos, out, has_run, paren_stack_size,
          prev_token, token, ptoks, ppos, exprs, result,
          scopes, outcome, curry_args, curry_result>>

eolVars == <<stream, pos, out, has_run, paren_stack_size, prev_token, token>>

parseVars == <<ptoks, ppos, exprs, result>>

\* The Scope objects of hasdrubal/scope.py and the outcome of the last call
\* on one of them.
scopeVars == <<scopes, outcome>>

\* The arguments and the result of typed.Function.curry.
curryVars == <<curry_args, curry_result>>

\* The front end: the EOL passes and the parser.
frontVars == <<source, pc, pass, eolVars, parseVars>>

\* ------------------------------------------------------------------ bounds

\* Longest enumerated raw token sequence.
MaxLen == 3

\* Most top-level `let` bindings in a generated program.
MaxLets == 3

\* Most parameters in a generated definition or lambda.
MaxParams == 3

\* Most elements in a generated comma chain or argument list.
MaxElems == 4

\* Longest token sequence given to infer_eols of hasdrubal/lex.py.
MaxLexLen == 5

\* Longest chain of Scope objects.
MaxDepth == 2

\* ------------------------------------------------------------------ tokens

None == <<>>

Token(span, type_, value) == [span |-> span, type_ |-> type_, value |-> value]

\* The unbound loop variable of insert_eols before the first iteration.
NoToken == Token(<<-1, -1>>, "<unbound>", None)

OPENERS == {"lbracket", "lparen"}

CLOSERS == {"rbracket", "rparen"}

VALID_STARTS ==
    {"bslash", "end", "false", "float_", "if_", "integer", "lbracket", "let",
     "lparen", "not_", "name_", "string", "tilde", "true"}

VALID_ENDS ==
    {"end", "false", "float_", "integer", "name_", "rbracket", "rparen",
     "string", "true"}

\* merge of two spans: min of the starts, max of the ends.
Min(a, b) == IF a <= b THEN a ELSE b

Max(a, b) == IF a >= b THEN a ELSE b

merge_left_only(left_span, right_span) == left_span

merge(left_span, right_span) ==
    <<Min(left_span[1], right_span[1]), Max(left_span[2], right_span[2])>>

\* `"\n" in current.value`
HasLineBreak(value) == \E i \in DOMAIN value : value[i] = "\n"

\* ------------------------------------------------------- the EOL engine

can_add_eol_no_depth(prev, current, next_, none_next, stack_size) ==
    /\ current.value # None
    /\ HasLineBreak(current.value)
    /\ prev.type_ \in VALID_ENDS
    /\ (none_next \/ next_.type_ \in VALID_STARTS)

can_add_eol_line_break_only(prev, current, next_, none_next, stack_size) ==
    /\ current.value # None
    /\ HasLineBreak(current.value)

can_add_eol_whatever_follows(prev, current, next_, none_next, stack_size) ==
    /\ stack_size = 0
    /\ current.value # None
    /\ HasLineBreak(current.value)
    /\ prev.type_ \in VALID_ENDS

\* can_add_eol; none_next stands for `next_ is None`.
can_add_eol(prev, current, next_, none_next, stack_size) ==
    /\ stack_size = 0
    /\ current.value # None
    /\ HasLineBreak(current.value)
    /\ prev.type_ \in VALID_ENDS
    /\ (none_next \/ next_.type_ \in VALID_STARTS)

\* The test guarding the trailing eol, on the last token read by the loop.
NeedsTrailingAlways(run, last_read) == run

NeedsTrailing(run, last_read) == run /\ last_read.type_ # "eol"

EolWhitespaceForwarded ==
    /\ pc = "eol"
    /\ pos <= Len(stream)
    /\ stream[pos].type_ = "whitespace"
    /\ has_run' = TRUE
    /\ token' = stream[pos]
    /\ pos' = pos + 1
    /\ prev_token' = stream[pos]
    /\ out' = Append(out, stream[pos])
    /\ UNCHANGED <<source, pc, pass, stream, paren_stack_size>>
    /\ UNCHANGED parseVars
    /\ UNCHANGED <<scopeVars, curryVars>>

\* One iteration of the loop of insert_eols on a whitespace token.
EolWhitespace ==
    /\ pc = "eol"
    /\ pos <= Len(stream)
    /\ stream[pos].type_ = "whitespace"
    /\ LET current == stream[pos]
           none_next == pos + 1 > Len(stream)
           next_token == IF none_next THEN NoToken ELSE stream[pos + 1]
       IN  /\ has_run' = TRUE
           /\ token' = current
           /\ pos' = pos + 1
           /\ IF can_add_eol(prev_token, current, next_token, none_next,
                             paren_stack_size)
              THEN /\ prev_token' = Token(current.span, "eol", None)
                   /\ out' = Append(out, prev_token')
              ELSE UNCHANGED <<prev_token, out>>
    /\ UNCHANGED <<source, pc, pass, stream, paren_stack_size>>
    /\ UNCHANGED parseVars
    /\ UNCHANGED <<scopeVars, curryVars>>

\* One iteration of the loop of insert_eols on any other token.
EolForward ==
    /\ pc = "eol"
    /\ pos <= Len(stream)
    /\ stream[pos].type_ # "whitespace"
    /\ LET current == stream[pos]
       IN  /\ has_run' = TRUE
           /\ token' = current
           /\ pos' = pos + 1
           /\ prev_token' = current
           /\ paren_stack_size' = paren_stack_size +
                (IF current.type_ \in OPENERS THEN 1
                 ELSE IF current.type_ \in CLOSERS THEN -1 ELSE 0)
           /\ out' = Append(out, current)
    /\ UNCHANGED <<source, pc, pass, stream>>
    /\ UNCHANGED parseVars
    /\ UNCHANGED <<scopeVars, curryVars>>

\* The code after the loop of insert_eols: the trailing eol.
EolFinish ==
    /\ pc = "eol"
    /\ pos > Len(stream)
    /\ pc' = "eol_done"
    /\ IF NeedsTrailing(has_run, token)
       THEN LET end == prev_token.span[2]
            IN  out' = Append(out, Token(<<end, end + 1>>, "eol", None))
       ELSE UNCHANGED out
    /\ UNCHANGED <<source, pass, stream, pos, has_run, paren_stack_size,
                   prev_token, token>>
    /\ UNCHANGED parseVars
    /\ UNCHANGED <<scopeVars, curryVars>>

\* The output of the engine is run through the engine again.
EolRerun ==
    /\ pc = "eol_done"
    /\ pass = 1
    /\ pass' = 2
    /\ pc' = "eol"
    /\ stream' = out
    /\ pos' = 1
    /\ out' = <<>>
    /\ has_run' = FALSE
    /\ paren_stack_size' = 0
    /\ prev_token' = Token(<<0, 0>>, "eol", None)
    /\ token' = NoToken
    /\ UNCHANGED source
    /\ UNCHANGED parseVars
    /\ UNCHANGED <<scopeVars, curryVars>>

\* ------------------------------------------------------------ TokenStream

\* peek(*types): the current token's type is one of types; False at the end.
peek(toks, p, types) == p <= Len(toks) /\ toks[p].type_ \in types

\* `while stream` / `preview() is not None`: a token remains.
HasToken(toks, p) == p <= Len(toks)

\* The outcome of a parsing function: a node and the cursor after it, or the
\* error raised and the cursor where it was raised.
Ok(node, p) == [err |-> "none", node |-> node, pos |-> p]

NoNode == [kind |-> "<none>"]

FailPastToken(kind, p) == [err |-> kind, node |-> NoNode, pos |-> p + 1]

Fail(kind, p) == [err |-> kind, node |-> NoNode, pos |-> p]

\* consume(*types): the current token, past which the cursor moves; the
\* token is returned in the node field.
consume(toks, p, types) ==
    IF p > Len(toks) THEN Fail("UnexpectedEOFError", p)
    ELSE IF toks[p].type_ \in types THEN Ok(toks[p], p + 1)
    ELSE Fail("UnexpectedTokenError", p)

\* consume_if(*types): the cursor after it (moved iff the token matched).
consume_if(toks, p, types) == IF peek(toks, p, types) THEN p + 1 ELSE p

\* ------------------------------------------------------------------ nodes

Name(span, value) == [kind |-> "Name", span |-> span, value |-> value]

TypedName(span, type_, value) ==
    [kind |-> "Name", span |-> span, type_ |-> type_, value |-> value]

Scalar(span, value) == [kind |-> "Scalar", span |-> span, value |-> value]

Unit(span) == [kind |-> "Unit", span |-> span]

Apply(span, func, arg) ==
    [kind |-> "Apply", span |-> span, func |-> func, arg |-> arg]

Function(span, param, body) ==
    [kind |-> "Function", span |-> span, param |-> param, body |-> body]

Define(span, target, value) ==
    [kind |-> "Define", span |-> span, target |-> target, value |-> value]

TypedDefine(span, type_, target, value) ==
    [kind |-> "Define", span |-> span, type_ |-> type_, target |-> target,
     value |-> value]

Cond(span, pred, cons, else_) ==
    [kind |-> "Cond", span |-> span, pred |-> pred, cons |-> cons,
     else_ |-> else_]

Block(span, body) == [kind |-> "Block", span |-> span, body |-> body]

List(span, elements) ==
    [kind |-> "List", span |-> span, elements |-> elements]

Pair(span, first, second) ==
    [kind |-> "Pair", span |-> span, first |-> first, second |-> second]

WithSpan(node, span) == [node EXCEPT !.span = span]

\* Types (asts/types_).
TypeName(span, value) == [kind |-> "TypeName", span |-> span, value |-> value]

TypeUnit(span) == TypeName(span, <<"Unit">>)

TypeVarUnknown(span) == [kind |-> "TypeVar", span |-> span, value |-> <<"?">>]

TypeApply(span, caller, callee) ==
    [kind |-> "TypeApply", span |-> span, caller |-> caller,
     callee |-> callee]

TypeFunc(span, arg, ret) ==
    TypeApply(span, TypeApply(span, TypeName(span, <<"->">>), arg), ret)

TypeTuple(span, elements) ==
    [kind |-> "TypeTuple", span |-> span, elements |-> elements]

\* Function.curry: `for param in reversed(params): body = cls(span, param, body)`.
RECURSIVE curry_last_outermost(_, _, _)
curry_last_outermost(span, params, body) ==
    IF params = <<>> THEN body
    ELSE curry_last_outermost(span, Tail(params),
                              Function(span, Head(params), body))

RECURSIVE curry(_, _, _)
curry(span, params, body) ==
    IF params = <<>> THEN body
    ELSE curry(span, SubSeq(params, 1, Len(params) - 1),
               Function(span, params[Len(params)], body))

\* _build_func_type.
RECURSIVE build_func_type(_, _)
build_func_type(args, return_type) ==
    IF args = <<>> THEN return_type
    ELSE LET arg == args[Len(args)]
             arg_type == IF "type_" \in DOMAIN arg THEN arg.type_
                         ELSE TypeVarUnknown(<<-1, -1>>)
         IN  build_func_type(
                 SubSeq(args, 1, Len(args) - 1),
                 TypeFunc(merge(return_type.span, arg_type.span), arg_type,
                          return_type))

\* --------------------------------------------------------------- tables

\* TokenTypes.<member>.value for the operator tokens.
TokenTypeValue(type_) ==
    CASE type_ = "and_" -> <<"and">>
      [] type_ = "or_" -> <<"or">>
      [] type_ = "greater" -> <<">">>
      [] type_ = "less" -> <<"<">>
      [] type_ = "greater_equal" -> <<">=">>
      [] type_ = "less_equal" -> <<"<=">>
      [] type_ = "equal" -> <<"=">>
      [] type_ = "question_equal" -> <<"/=">>
      [] type_ = "plus" -> <<"+">>
      [] type_ = "dash" -> <<"-">>
      [] type_ = "diamond" -> <<"<>">>
      [] type_ = "fslash" -> <<"/">>
      [] type_ = "asterisk" -> <<"*">>
      [] type_ = "percent" -> <<"%">>
      [] type_ = "caret" -> <<"^">>
      [] OTHER -> <<type_>>

ScalarTypes == {"false", "float_", "integer", "string", "true"}

\* The keys of prefix_parsers.
PrefixTypes ==
    {"if_", "bslash", "name_", "lbracket", "lparen", "let", "not_", "dash"}
        \cup ScalarTypes

\* The keys of infix_parsers built with build_infix_op.
InfixOps ==
    {"and_", "or_", "greater", "less", "greater_equal", "less_equal", "equal",
     "question_equal", "plus", "dash", "diamond", "fslash", "asterisk",
     "percent", "caret"}

\* The keys of infix_parsers.
InfixTypes == InfixOps \cup {"lparen", "dot", "comma"}

NoRightAssociative == {}

\* The operators built with right_associative=True in infix_parsers.
RightAssociative == {"fslash"}

\* precedence_table.get(type_, -1)
precedence(type_) ==
    CASE type_ = "let" -> 0
      [] type_ = "comma" -> 10
      [] type_ = "bslash" -> 20
      [] type_ = "if_" -> 30
      [] type_ = "and_" -> 40
      [] type_ = "or_" -> 50
      [] type_ = "not_" -> 60
      [] type_ \in {"greater", "less", "greater_equal", "less_equal",
                    "question_equal", "equal"} -> 70
      [] type_ \in {"plus", "dash", "diamond"} -> 80
      [] type_ \in {"fslash", "asterisk", "percent"} -> 90
      [] type_ = "caret" -> 100
      [] type_ = "lparen" -> 110
      [] type_ = "dot" -> 120
      [] OTHER -> -1

\* --------------------------------------------------------------- scalars

Digits == {"0", "1", "2", "3", "4", "5", "6", "7", "8", "9"}

DigitValue(c) ==
    CASE c = "0" -> 0 [] c = "1" -> 1 [] c = "2" -> 2 [] c = "3" -> 3
      [] c = "4" -> 4 [] c = "5" -> 5 [] c = "6" -> 6 [] c = "7" -> 7
      [] c = "8" -> 8 [] c = "9" -> 9

\* The texts int() and float() accept: an underscore only between digits.
NumberTextOk(value) ==
    /\ value # <<>>
    /\ \A i \in DOMAIN value :
          value[i] = "_" =>
              /\ i > 1 /\ i < Len(value)
              /\ value[i - 1] \in Digits /\ value[i + 1] \in Digits

\* int(value) of an accepted text.
RECURSIVE PyInt(_, _)
PyInt(value, acc) ==
    IF value = <<>> THEN acc
    ELSE IF Head(value) = "_" THEN PyInt(Tail(value), acc)
    ELSE PyInt(Tail(value), 10 * acc + DigitValue(Head(value)))

\* parse_scalar
parse_scalar(toks, p) ==
    LET tok == toks[p]
    IN  CASE tok.type_ = "false" ->
               Ok(Scalar(tok.span, [py |-> "bool", v |-> FALSE]), p + 1)
          [] tok.type_ = "true" ->
               Ok(Scalar(tok.span, [py |-> "bool", v |-> TRUE]), p + 1)
          [] tok.type_ = "float_" ->
               IF NumberTextOk(tok.value)
               THEN Ok(Scalar(tok.span, [py |-> "float", v |-> tok.value]),
                       p + 1)
               ELSE Fail("ValueError", p + 1)
          [] tok.type_ = "integer" ->
               IF NumberTextOk(tok.value)
               THEN Ok(Scalar(tok.span,
                              [py |-> "int", v |-> PyInt(tok.value, 0)]),
                       p + 1)
               ELSE Fail("ValueError", p + 1)
          [] tok.type_ = "string" ->
               Ok(Scalar(tok.span,
                         [py |-> "str",
                          v |-> SubSeq(tok.value, 2, Len(tok.value) - 1)]),
                  p + 1)

\* parse_name
parse_name(toks, p) == Ok(Name(toks[p].span, toks[p].value), p + 1)

\* ------------------------------------------------------------- the types

\* Exception propagation: what follows a call runs only if it did not raise.
Bind(r, F(_)) == IF r.err # "none" THEN r ELSE F(r)

RECURSIVE parse_type(_, _)
RECURSIVE parse_tuple_type(_, _)
RECURSIVE tuple_type_loop(_, _, _)
RECURSIVE parse_generic_type(_, _)
RECURSIVE generic_type_loop(_, _, _)

parse_type(toks, p) ==
    Bind(parse_tuple_type(toks, p), LAMBDA left :
        IF peek(toks, left.pos, {"arrow"})
        THEN Bind(parse_type(toks, left.pos + 1), LAMBDA right :
                 Ok(TypeFunc(merge(left.node.span, right.node.span),
                             left.node, right.node),
                    right.pos))
        ELSE left)

\* The loop of parse_tuple_type; the node field holds the elements.
tuple_type_loop(toks, p, elements) ==
    IF peek(toks, p, {"rparen"}) THEN Ok(elements, p)
    ELSE Bind(parse_type(toks, p), LAMBDA element :
             IF peek(toks, element.pos, {"comma"})
             THEN tuple_type_loop(toks, element.pos + 1,
                                  Append(elements, element.node))
             ELSE Ok(Append(elements, element.node), element.pos))

parse_tuple_type(toks, p) ==
    IF peek(toks, p, {"lparen"})
    THEN Bind(tuple_type_loop(toks, p + 1, <<>>), LAMBDA elems :
         Bind(consume(toks, elems.pos, {"rparen"}), LAMBDA last :
             IF elems.node = <<>>
             THEN Ok(TypeUnit(merge(toks[p].span, last.node.span)), last.pos)
             ELSE IF Len(elems.node) = 1
             THEN Ok(elems.node[1], last.pos)
             ELSE Ok(TypeTuple(merge(toks[p].span, last.node.span),
                               elems.node),
                     last.pos)))
    ELSE parse_generic_type(toks, p)

\* The loop of parse_generic_type: `while not stream.peek(TokenTypes.rparen)`.
generic_type_loop(toks, p, type_) ==
    IF peek(toks, p, {"rparen"}) THEN Ok(type_, p)
    ELSE Bind(parse_type(toks, p), LAMBDA arg :
             IF peek(toks, arg.pos, {"comma"})
             THEN generic_type_loop(
                      toks, arg.pos + 1,
                      TypeApply(merge(type_.span, arg.node.span), type_,
                                arg.node))
             ELSE Ok(TypeApply(merge(type_.span, arg.node.span), type_,
                               arg.node),
                     arg.pos))

parse_generic_type(toks, p) ==
    Bind(consume(toks, p, {"name_"}), LAMBDA base_token :
        IF peek(toks, base_token.pos, {"lbracket"})
        THEN generic_type_loop(
                 toks, base_token.pos + 1,
                 TypeName(base_token.node.span, base_token.node.value))
        ELSE Ok(TypeName(base_token.node.span, base_token.node.value),
                base_token.pos))

\* One parameter of parse_parameters, with its annotation if it has one.
parse_parameter(toks, p) ==
    IF peek(toks, p + 1, {"colon"})
    THEN Bind(parse_type(toks, p + 2), LAMBDA param_type :
             Ok(TypedName(toks[p].span, param_type.node, toks[p].value),
                param_type.pos))
    ELSE Ok(Name(toks[p].span, toks[p].value), p + 1)

\* The loop of parse_parameters; the node field holds the parameters.
RECURSIVE parameters_loop(_, _, _)
parameters_loop(toks, p, params) ==
    IF ~peek(toks, p, {"name_"}) THEN Ok(params, p)
    ELSE Bind(parse_parameter(toks, p), LAMBDA param :
             IF peek(toks, param.pos, {"comma"})
             THEN parameters_loop(toks, param.pos + 1,
                                  Append(params, param.node))
             ELSE Ok(Append(params, param.node), param.pos))

parse_parameters_or_none(toks, p) == parameters_loop(toks, p, <<>>)

parse_parameters(toks, p) ==
    Bind(parameters_loop(toks, p, <<>>), LAMBDA params :
        IF params.node # <<>> THEN params
        ELSE Bind(consume(toks, params.pos, {"name_"}), LAMBDA missing :
                 Fail("AssertionError", missing.pos)))

\* ------------------------------------------------------ the Pratt parser

RECURSIVE parse_expr(_, _, _)
RECURSIVE infix_loop(_, _, _, _)
RECURSIVE prefix_parser(_, _)
RECURSIVE infix_parser(_, _, _)
RECURSIVE parse_body_section(_, _)
RECURSIVE block_loop(_, _, _, _)
RECURSIVE parse_block(_, _, _)
RECURSIVE elements_loop(_, _, _, _)
RECURSIVE parse_elements(_, _, _)
RECURSIVE infix_op(_, _, _)
RECURSIVE parse_apply(_, _, _)
RECURSIVE parse_define(_, _)
RECURSIVE parse_func(_, _)
RECURSIVE parse_if(_, _)
RECURSIVE parse_list(_, _)
RECURSIVE parse_negate(_, _)
RECURSIVE parse_not(_, _)
RECURSIVE parse_pair(_, _, _)
RECURSIVE parse_group(_, _)

\* The binding power build_infix_op parses its right operand at.
RightPowerOneLess(type_) == precedence(type_) - 1

RightPower(type_) ==
    precedence(type_) - (IF type_ \in RightAssociative THEN 1 ELSE 0)

parse_body_section(toks, p) ==
    IF peek(toks, p, {"equal"}) THEN parse_expr(toks, p + 1, 0)
    ELSE Bind(consume(toks, p, {"colon_equal"}), LAMBDA c :
             parse_block(toks, c.pos, {"end"}))

\* What parse and parse_block return for the expressions they gathered;
\* empty_span is the span given to the Unit of an empty body.
AlwaysBlock(body, empty_span) ==
    IF body = <<>> THEN Unit(empty_span)
    ELSE Block(merge(body[1].span, body[Len(body)].span), body)

BodyResult(body, empty_span) ==
    IF body = <<>> THEN Unit(empty_span)
    ELSE IF Len(body) = 1 THEN body[1]
    ELSE Block(merge(body[1].span, body[Len(body)].span), body)

\* The loop of parse_block; the node field holds the expressions.
block_loop(toks, p, expected_ends, body) ==
    IF peek(toks, p, expected_ends) THEN Ok(body, p + 1)
    ELSE Bind(parse_expr(toks, p, 0), LAMBDA expr :
         Bind(consume(toks, expr.pos, {"eol"}), LAMBDA c :
             block_loop(toks, c.pos, expected_ends, Append(body, expr.node))))

\* `next_token.span` of an empty body raises when preview() returned None.
parse_block(toks, p, expected_ends) ==
    Bind(block_loop(toks, p, expected_ends, <<>>), LAMBDA body :
        IF body.node = <<>> /\ ~HasToken(toks, body.pos)
        THEN Fail("AttributeError", body.pos)
        ELSE Ok(BodyResult(body.node,
                           IF body.node = <<>> THEN toks[body.pos].span
                           ELSE <<0, 0>>),
                body.pos))

\* The loop of parse_elements; the node field holds the elements.
elements_loop(toks, p, end, elements) ==
    IF peek(toks, p, end) THEN Ok(elements, p)
    ELSE Bind(parse_expr(toks, p, precedence("comma")), LAMBDA element :
             IF peek(toks, element.pos, {"comma"})
             THEN elements_loop(toks, element.pos + 1, end,
                                Append(elements, element.node))
             ELSE Ok(Append(elements, element.node), element.pos))

parse_elements(toks, p, end) == elements_loop(toks, p, end, <<>>)

\* build_infix_op(token_type).inner
infix_op(toks, p, left) ==
    Bind(parse_expr(toks, p + 1, RightPower(toks[p].type_)), LAMBDA right :
        Ok(Apply(merge(left.span, right.node.span),
                 Apply(merge(left.span, toks[p].span),
                       Name(toks[p].span, TokenTypeValue(toks[p].type_)),
                       left),
                 right.node),
           right.pos))

\* The fold of parse_apply over the arguments.
apply_fold_first_only(result_, arguments) ==
    IF arguments = <<>> THEN result_
    ELSE Apply(merge(result_.span, Head(arguments).span), result_,
               Head(arguments))

RECURSIVE apply_fold(_, _)
apply_fold(result_, arguments) ==
    IF arguments = <<>> THEN result_
    ELSE apply_fold(Apply(merge(result_.span, Head(arguments).span),
                          result_, Head(arguments)),
                    Tail(arguments))

parse_apply(toks, p, left) ==
    Bind(parse_elements(toks, p + 1, {"rparen"}), LAMBDA arguments :
    Bind(consume(toks, arguments.pos, {"rparen"}), LAMBDA last :
        Ok(WithSpan(apply_fold(left, arguments.node),
                    merge(left.span, last.node.span)),
           last.pos)))

\* parse_define after `let name (params) -> type`.
typed_function_define(toks, p, target_token, params, return_type) ==
    Bind(parse_body_section(toks, return_type.pos), LAMBDA body :
        Ok(TypedDefine(
               merge(toks[p].span, body.node.span),
               build_func_type(params.node, return_type.node),
               TypedName(target_token.span,
                         TypeVarUnknown(target_token.span),
                         target_token.value),
               curry(merge(target_token.span, body.node.span), params.node,
                     body.node)),
           body.pos))

\* parse_define after `let name (params)` without a return type.
function_define(toks, p, target_token, params, body_pos) ==
    Bind(parse_body_section(toks, body_pos), LAMBDA body :
        Ok(Define(merge(toks[p].span, body.node.span),
                  Name(target_token.span, target_token.value),
                  curry(merge(target_token.span, body.node.span), params.node,
                        body.node)),
           body.pos))

\* parse_define of a value binding, target being its (annotated) name.
value_define(toks, p, target, body_pos) ==
    Bind(parse_body_section(toks, body_pos), LAMBDA body :
        Ok(Define(merge(toks[p].span, body.node.span), target, body.node),
           body.pos))

parse_define(toks, p) ==
    Bind(consume(toks, p + 1, {"name_"}), LAMBDA target_token :
        IF peek(toks, target_token.pos, {"lparen"})
        THEN Bind(parse_parameters(toks, target_token.pos + 1),
                  LAMBDA params :
             Bind(consume(toks, params.pos, {"rparen"}), LAMBDA rp :
                 IF peek(toks, rp.pos, {"arrow"})
                 THEN Bind(parse_type(toks, rp.pos + 1), LAMBDA return_type :
                          typed_function_define(toks, p, target_token.node,
                                                params, return_type))
                 ELSE function_define(toks, p, target_token.node, params,
                                      rp.pos)))
        ELSE IF peek(toks, target_token.pos, {"colon"})
        THEN Bind(parse_type(toks, target_token.pos + 1), LAMBDA type_ann :
                 value_define(toks, p,
                              TypedName(target_token.node.span, type_ann.node,
                                        target_token.node.value),
                              type_ann.pos))
        ELSE value_define(toks, p,
                          Name(target_token.node.span,
                               target_token.node.value),
                          target_token.pos))

parse_func(toks, p) ==
    Bind(parse_parameters(toks, p + 1), LAMBDA params :
    Bind(consume(toks, params.pos, {"arrow"}), LAMBDA arrow :
    Bind(parse_expr(toks, arrow.pos, precedence("bslash")), LAMBDA body :
        Ok(curry(merge(toks[p].span, body.node.span), params.node, body.node),
           body.pos))))

parse_if(toks, p) ==
    Bind(parse_expr(toks, p + 1, precedence("if_")), LAMBDA pred :
    Bind(consume(toks, pred.pos, {"then"}), LAMBDA then :
    Bind(parse_expr(toks, then.pos, precedence("if_")), LAMBDA cons :
    Bind(consume(toks, cons.pos, {"else_"}), LAMBDA else_tok :
    Bind(parse_expr(toks, else_tok.pos, precedence("if_")), LAMBDA else_ :
        Ok(Cond(merge(toks[p].span, else_.node.span), pred.node, cons.node,
                else_.node),
           else_.pos))))))

parse_list(toks, p) ==
    Bind(parse_elements(toks, p + 1, {"rbracket"}), LAMBDA elements :
    Bind(consume(toks, elements.pos, {"rbracket"}), LAMBDA last :
        Ok(List(merge(toks[p].span, last.node.span), elements.node),
           last.pos)))

parse_negate(toks, p) ==
    Bind(parse_expr(toks, p + 1, precedence("dash")), LAMBDA operand :
        Ok(Apply(merge(toks[p].span, operand.node.span),
                 Name(toks[p].span, <<"~">>), operand.node),
           operand.pos))

parse_not(toks, p) ==
    Bind(parse_expr(toks, p + 1, precedence("not_")), LAMBDA operand :
        Ok(Apply(merge(toks[p].span, operand.node.span),
                 Name(toks[p].span, <<"not">>), operand.node),
           operand.pos))

\* The binding power parse_pair parses its right operand at.
PairRightPowerOwn == precedence("comma")

PairRightPower == precedence("comma") - 1

parse_pair(toks, p, left) ==
    Bind(parse_expr(toks, p + 1, PairRightPower), LAMBDA right :
        Ok(Pair(merge(left.span, right.node.span), left, right.node),
           right.pos))

parse_dot(toks, p, left) ==
    Bind(consume(toks, p + 1, {"name_"}), LAMBDA name_token :
        Ok(Apply(merge(left.span, name_token.node.span),
                 Name(name_token.node.span, name_token.node.value), left),
           name_token.pos))

parse_group(toks, p) ==
    Bind(IF peek(toks, p + 1, {"rparen"}) THEN Ok(Unit(<<0, 0>>), p + 1)
         ELSE parse_expr(toks, p + 1, 0),
         LAMBDA expr :
    Bind(consume(toks, expr.pos, {"rparen"}), LAMBDA end_token :
        Ok(WithSpan(expr.node, merge(toks[p].span, end_token.node.span)),
           end_token.pos)))

\* prefix_parsers[type_](stream)
prefix_parser(toks, p) ==
    CASE toks[p].type_ = "if_" -> parse_if(toks, p)
      [] toks[p].type_ = "bslash" -> parse_func(toks, p)
      [] toks[p].type_ = "name_" -> parse_name(toks, p)
      [] toks[p].type_ = "lbracket" -> parse_list(toks, p)
      [] toks[p].type_ = "lparen" -> parse_group(toks, p)
      [] toks[p].type_ = "let" -> parse_define(toks, p)
      [] toks[p].type_ = "not_" -> parse_not(toks, p)
      [] toks[p].type_ = "dash" -> parse_negate(toks, p)
      [] toks[p].type_ \in ScalarTypes -> parse_scalar(toks, p)

\* infix_parsers[type_](stream, left)
infix_parser(toks, p, left) ==
    CASE toks[p].type_ \in InfixOps -> infix_op(toks, p, left)
      [] toks[p].type_ = "lparen" -> parse_apply(toks, p, left)
      [] toks[p].type_ = "dot" -> parse_dot(toks, p, left)
      [] toks[p].type_ = "comma" -> parse_pair(toks, p, left)

\* The test parse_expr makes of the operator that follows `left`.
BindsWhateverThePrecedence(type_, current_precedence) ==
    precedence(type_) >= 0

BindsTighter(type_, current_precedence) ==
    precedence(type_) > current_precedence

\* The while loop of parse_expr.
infix_loop(toks, p, left, current_precedence) ==
    IF HasToken(toks, p) /\ BindsTighter(toks[p].type_, current_precedence)
    THEN IF toks[p].type_ \notin InfixTypes THEN Ok(left, p)
         ELSE Bind(infix_parser(toks, p, left), LAMBDA next_left :
                  infix_loop(toks, next_left.pos, next_left.node,
                             current_precedence))
    ELSE Ok(left, p)

parse_expr(toks, p, current_precedence) ==
    IF ~HasToken(toks, p) THEN Fail("UnexpectedEOFError", p)
    ELSE IF toks[p].type_ \notin PrefixTypes
    THEN Fail("UnexpectedTokenError", p)
    ELSE Bind(prefix_parser(toks, p), LAMBDA left :
             infix_loop(toks, left.pos, left.node, current_precedence))

\* ---------------------------------------------------------------- sources

\* A lexeme is a token without its span; Lex lays lexemes out one column each.
Lexeme(type_, value) == [type_ |-> type_, value |-> value]

Lex(lexemes) ==
    [i \in 1..Len(lexemes) |->
        Token(<<i - 1, i>>, lexemes[i].type_, lexemes[i].value)]

Space == Lexeme("whitespace", <<" ">>)

LineBreak == Lexeme("whitespace", <<"\n">>)

Punct(type_) == Lexeme(type_, None)

Integer(n) == Lexeme("integer", <<n>>)

Ident(x) == Lexeme("name_", <<x>>)

\* The lexemes of the enumerated raw sequences.
Alphabet ==
    {LineBreak, Space, Lexeme("whitespace", None), Integer("1"),
     Punct("lparen"), Punct("rparen"), Punct("plus"), Punct("let")}

RECURSIVE SeqsUpTo(_)
SeqsUpTo(n) ==
    IF n = 0 THEN {<<>>}
    ELSE LET shorter == SeqsUpTo(n - 1)
         IN  shorter \cup
             {Append(s, a) : s \in {t \in shorter : Len(t) = n - 1},
                             a \in Alphabet}

VarNames == <<"x", "y", "z", "w">>

Numerals == <<"1", "2", "3", "4", "5">>

\* "let x = 1" "\n" "let y = 2" ... with or without the final line break.
RECURSIVE LetLines(_, _)
LetLines(n, final_break) ==
    IF n = 0 THEN <<>>
    ELSE LetLines(n - 1, TRUE) \o
         <<Punct("let"), Space, Ident(VarNames[n]), Space, Punct("equal"),
           Space, Integer(Numerals[n])>> \o
         (IF final_break THEN <<LineBreak>> ELSE <<>>)

\* "(1," "\n " "2)"
GroupSource ==
    <<Punct("lparen"), Integer("1"), Punct("comma"),
      Lexeme("whitespace", <<"\n", " ">>), Integer("2"), Punct("rparen")>>

\* "1 op1 2 op2 3"
OpChain(op1, op2) ==
    <<Integer("1"), Space, Punct(op1), Space, Integer("2"), Space,
      Punct(op2), Space, Integer("3")>>

\* "p1, p2, ..., pn"
RECURSIVE ParamList(_)
ParamList(n) ==
    IF n = 0 THEN <<>>
    ELSE IF n = 1 THEN <<Ident(VarNames[1])>>
    ELSE ParamList(n - 1) \o <<Punct("comma"), Space, Ident(VarNames[n])>>

\* "let f(p1, ..., pn) = p1", or "let f(p1, ..., pn) -> T = p1"
DefSource(n, typed) ==
    <<Punct("let"), Space, Ident("f"), Punct("lparen")>> \o ParamList(n) \o
    <<Punct("rparen"), Space>> \o
    (IF typed THEN <<Punct("arrow"), Space, Ident("T"), Space>> ELSE <<>>) \o
    <<Punct("equal"), Space, Ident(VarNames[1])>>

\* "let f :=" "\n" "1" "\n" "2" "\n" ... "end"
RECURSIVE BlockLines(_)
BlockLines(k) ==
    IF k = 0 THEN <<>>
    ELSE BlockLines(k - 1) \o <<Integer(Numerals[k]), LineBreak>>

BlockSource(k) ==
    <<Punct("let"), Space, Ident("f"), Space, Punct("colon_equal"),
      LineBreak>> \o BlockLines(k) \o <<Punct("end")>>

\* "1, 2, ..., n"
RECURSIVE ElemList(_)
ElemList(n) ==
    IF n = 1 THEN <<Integer(Numerals[1])>>
    ELSE ElemList(n - 1) \o <<Punct("comma"), Space, Integer(Numerals[n])>>

CommaChain(n) == ElemList(n)

\* "f(1, 2, ..., n)"
CallSource(n) ==
    <<Ident("f"), Punct("lparen")>> \o ElemList(n) \o <<Punct("rparen")>>

\* A lexeme of each token type that has a prefix parser.
SampleLexeme(type_) ==
    CASE type_ = "integer" -> Integer("1")
      [] type_ = "name_" -> Ident("x")
      [] type_ = "float_" -> Lexeme("float_", <<"1", ".", "5">>)
      [] type_ = "string" -> Lexeme("string", <<"\"", "a", "\"">>)
      [] type_ = "true" -> Lexeme("true", <<"True">>)
      [] type_ = "false" -> Lexeme("false", <<"False">>)
      [] OTHER -> Punct(type_)

\* "1" "\n" followed by a token that can begin an expression, and "2"
LineThen(type_) ==
    <<Integer("1"), LineBreak, SampleLexeme(type_), Integer("2")>>

\* "\p1, ..., pn -> x"
LambdaSource(n) ==
    <<Punct("bslash")>> \o ParamList(n) \o
    <<Space, Punct("arrow"), Space, Ident(VarNames[1])>>

\* "let v : List[p1, ..., pn] = x"
GenericDefSource(n) ==
    <<Punct("let"), Space, Ident("v"), Space, Punct("colon"), Space,
      Ident("List"), Punct("lbracket")>> \o ParamList(n) \o
    <<Punct("rbracket"), Space, Punct("equal"), Space, Ident(VarNames[1])>>

Sources ==
    SeqsUpTo(MaxLen)
        \cup {GenericDefSource(n) : n \in 1..MaxParams}
        \cup {LambdaSource(n) : n \in 0..MaxParams}
        \cup {DefSource(0, FALSE)}
        \cup {CommaChain(n) : n \in 2..MaxElems}
        \cup {CallSource(n) : n \in 1..MaxElems}
        \cup {LineThen(t) : t \in PrefixTypes}
        \cup {LetLines(n, b) : n \in 1..MaxLets, b \in BOOLEAN}
        \cup {GroupSource}
        \cup {OpChain(op1, op2) : op1 \in InfixOps, op2 \in InfixOps}
        \cup {DefSource(n, t) : n \in 1..MaxParams, t \in BOOLEAN}
        \cup {BlockSource(k) : k \in 0..MaxLets}

\* ------------------------------------------------------------ the machine

Pending == [err |-> "<pending>", node |-> NoNode, pos |-> 0]

\* None, and the mark of a name that is not a key of `_data`.
NoValue == 0

\* No call has been made on a Scope.
NoOutcome ==
    [op |-> "<none>", scope |-> 0, name |-> "", value |-> NoValue,
     default |-> NoValue, raised |-> "none", ret |-> NoValue]

\* typed.Function.curry has not been called.
NoCurry == [span |-> <<0, 0>>, params |-> <<>>, body |-> NoNode]

Init ==
    /\ source \in {Lex(s) : s \in Sources}
    /\ pc = "eol"
    /\ pass = 1
    /\ stream = source
    /\ pos = 1
    /\ out = <<>>
    /\ has_run = FALSE
    /\ paren_stack_size = 0
    /\ prev_token = Token(<<0, 0>>, "eol", None)
    /\ token = NoToken
    /\ ptoks = <<>>
    /\ ppos = 1
    /\ exprs = <<>>
    /\ result = Pending
    /\ scopes = <<>>
    /\ outcome = NoOutcome
    /\ curry_args = NoCurry
    /\ curry_result = NoNode

\* infer_eols followed by parse: the parser reads the engine's output.
StartParse ==
    /\ pc = "eol_done"
    /\ pass = 1
    /\ pc' = "parse"
    /\ ptoks' = out
    /\ ppos' = 1
    /\ UNCHANGED <<source, pass, exprs, result>>
    /\ UNCHANGED eolVars
    /\ UNCHANGED <<scopeVars, curryVars>>

\* parse on the tokenizer's stream itself, whitespace in its ignore set.
ParseRaw ==
    /\ pc = "eol"
    /\ pass = 1
    /\ pos = 1
    /\ pc' = "parse"
    /\ pass' = 0
    /\ ptoks' = SelectSeq(source, LAMBDA t : t.type_ # "whitespace")
    /\ ppos' = 1
    /\ UNCHANGED <<source, exprs, result>>
    /\ UNCHANGED eolVars
    /\ UNCHANGED <<scopeVars, curryVars>>

\* One iteration of the loop of parse: parse_expr, then consume(eol); the
\* node field of the outcome holds the expression and pos the new cursor.
parse_iteration(toks, p) ==
    Bind(parse_expr(toks, p, 0), LAMBDA expr :
        IF consume(toks, expr.pos, {"eol"}).err = "none"
        THEN Ok(expr.node, expr.pos + 1)
        ELSE [consume(toks, expr.pos, {"eol"}) EXCEPT !.node = expr.node])

ParseExpr ==
    /\ pc = "parse"
    /\ HasToken(ptoks, ppos)
    /\ \E step \in {parse_iteration(ptoks, ppos)} :
          /\ exprs' = IF step.node = NoNode THEN exprs
                      ELSE Append(exprs, step.node)
          /\ ppos' = step.pos
          /\ IF step.err = "none" THEN UNCHANGED <<pc, result>>
             ELSE /\ pc' = "done"
                  /\ result' = [step EXCEPT !.node = NoNode]
    /\ UNCHANGED <<source, pass, ptoks>>
    /\ UNCHANGED eolVars
    /\ UNCHANGED <<scopeVars, curryVars>>

\* The end of parse: the stream is exhausted.
ParseFinish ==
    /\ pc = "parse"
    /\ ~HasToken(ptoks, ppos)
    /\ pc' = "done"
    /\ result' = Ok(BodyResult(exprs, <<0, 0>>), ppos)
    /\ UNCHANGED <<source, pass, ptoks, ppos, exprs>>
    /\ UNCHANGED eolVars
    /\ UNCHANGED <<scopeVars, curryVars>>

Next ==
    \/ EolWhitespace
    \/ EolForward
    \/ EolFinish
    \/ EolRerun
    \/ StartParse
    \/ ParseRaw
    \/ ParseExpr
    \/ ParseFinish

Spec == Init /\ [][Next]_vars

\* ------------------------------------- the EOL pass of hasdrubal/lex.py

literals == {"float_", "integer", "name"}

valid_enders == literals \cup {"rparen", "rbracket"}

valid_starters == {"let", "lparen", "lbracket"} \cup literals

\* can_add_eol of hasdrubal/lex.py; none_next stands for `next_ is None`.
lex_can_add_eol(prev, next_, none_next, stack_size) ==
    /\ stack_size = 0
    /\ prev.type_ \in valid_enders
    /\ (none_next \/ next_.type_ \in valid_starters)

\* The raw token sequences: what lex yields, `newline` tokens included.
LexAlphabet ==
    {Integer("1"), Lexeme("newline", None), Punct("lparen"), Punct("rparen")}

RECURSIVE LexSeqsUpTo(_)
LexSeqsUpTo(n) ==
    IF n = 0 THEN {<<>>}
    ELSE LET shorter == LexSeqsUpTo(n - 1)
         IN  shorter \cup
             {Append(s, a) : s \in {t \in shorter : Len(t) = n - 1},
                             a \in LexAlphabet}

\* The front end's parser and the other components stay idle.
IdleParser ==
    /\ ptoks = <<>>
    /\ ppos = 1
    /\ exprs = <<>>
    /\ result = Pending

InitLex ==
    /\ source \in {Lex(s) : s \in LexSeqsUpTo(MaxLexLen)}
    /\ pc = "infer"
    /\ pass = 1
    /\ stream = source
    /\ pos = 1
    /\ out = <<>>
    /\ has_run = FALSE
    /\ paren_stack_size = 0
    /\ prev_token = Token(<<0, 1>>, "eol", None)
    /\ token = Token(<<0, 1>>, "eol", None)
    /\ IdleParser
    /\ scopes = <<>>
    /\ outcome = NoOutcome
    /\ curry_args = NoCurry
    /\ curry_result = NoNode

\* One iteration of the loop of infer_eols on a `newline` token: the next
\* token is taken from the stream as well, and forwarded below the branch.
InferNewline ==
    /\ pc = "infer"
    /\ pos <= Len(stream)
    /\ stream[pos].type_ = "newline"
    /\ has_run' = TRUE
    /\ IF pos + 1 > Len(stream)
       THEN \* next_token is None: `next_token.span` raises, or the loop breaks
            /\ pc' = IF lex_can_add_eol(prev_token, NoToken, TRUE,
                                        paren_stack_size)
                     THEN "infer_raised" ELSE "infer"
            /\ token' = stream[pos]
            /\ pos' = pos + 1
            /\ UNCHANGED <<out, prev_token>>
       ELSE /\ out' = out \o
                (IF lex_can_add_eol(prev_token, stream[pos + 1], FALSE,
                                    paren_stack_size)
                 THEN <<Token(<<prev_token.span[2], stream[pos + 1].span[1]>>,
                              "eol", None)>>
                 ELSE <<>>) \o <<stream[pos + 1]>>
            /\ token' = stream[pos + 1]
            /\ prev_token' = stream[pos + 1]
            /\ pos' = pos + 2
            /\ UNCHANGED pc
    /\ UNCHANGED <<source, pass, stream, paren_stack_size>>
    /\ UNCHANGED <<parseVars, scopeVars, curryVars>>

\* One iteration of the loop of infer_eols on any other token.
InferForward ==
    /\ pc = "infer"
    /\ pos <= Len(stream)
    /\ stream[pos].type_ # "newline"
    /\ has_run' = TRUE
    /\ token' = stream[pos]
    /\ pos' = pos + 1
    /\ paren_stack_size' = paren_stack_size +
         (IF stream[pos].type_ \in {"lbracket", "lparen"} THEN 1
          ELSE IF stream[pos].type_ \in {"rbracket", "rparen"} THEN -1 ELSE 0)
    /\ out' = Append(out, stream[pos])
    /\ prev_token' = stream[pos]
    /\ UNCHANGED <<source, pc, pass, stream>>
    /\ UNCHANGED <<parseVars, scopeVars, curryVars>>

\* The code after the loop of infer_eols.
InferFinish ==
    /\ pc = "infer"
    /\ pos > Len(stream)
    /\ pc' = "infer_done"
    /\ out' = IF has_run /\ token.type_ # "newline"
              THEN Append(out, Token(<<token.span[2], token.span[2] + 1>>,
                                     "eol", None))
              ELSE out
    /\ UNCHANGED <<source, pass, stream, pos, has_run, paren_stack_size,
                   prev_token, token>>
    /\ UNCHANGED <<parseVars, scopeVars, curryVars>>

NextLex ==
    \/ InferNewline
    \/ InferForward
    \/ InferFinish

SpecLex == InitLex /\ [][NextLex]_vars

\* ----------------------------------------------------------- properties

\* A tree without its spans (and without its type annotations).
RECURSIVE Shape(_)
Shape(node) ==
    CASE node.kind = "Name" -> <<"Name", node.value>>
      [] node.kind = "Scalar" -> <<"Scalar", node.value>>
      [] node.kind = "Unit" -> <<"Unit">>
      [] node.kind = "Apply" -> <<"Apply", Shape(node.func), Shape(node.arg)>>
      [] node.kind = "Function" ->
           <<"Function", Shape(node.param), Shape(node.body)>>
      [] node.kind = "Define" ->
           <<"Define", Shape(node.target), Shape(node.value)>>
      [] node.kind = "Cond" ->
           <<"Cond", Shape(node.pred), Shape(node.cons), Shape(node.else_)>>
      [] node.kind = "Block" ->
           <<"Block", [i \in DOMAIN node.body |-> Shape(node.body[i])]>>
      [] node.kind = "List" ->
           <<"List", [i \in DOMAIN node.elements |-> Shape(node.elements[i])]>>
      [] node.kind = "Pair" ->
           <<"Pair", Shape(node.first), Shape(node.second)>>

IntShape(n) == <<"Scalar", [py |-> "int", v |-> n]>>

NameShape(x) == <<"Name", <<x>>>>

\* Apply(Apply(op, a), b) without spans.
BinShape(op, a, b) ==
    <<"Apply", <<"Apply", <<"Name", TokenTypeValue(op)>>, a>>, b>>

\* Openers minus closers among the tokens of a sequence.
RECURSIVE Depth(_)
Depth(toks) ==
    IF toks = <<>> THEN 0
    ELSE Depth(SubSeq(toks, 1, Len(toks) - 1)) +
         (IF toks[Len(toks)].type_ \in OPENERS THEN 1
          ELSE IF toks[Len(toks)].type_ \in CLOSERS THEN -1 ELSE 0)

IsEol(toks, i) == toks[i].type_ = "eol"

\* The engine has emitted an eol for a whitespace token of the source.
EmittedForWhitespace ==
    /\ pass = 1
    /\ pc = "eol"
    /\ out # <<>>
    /\ IsEol(out, Len(out))

\* C1: the output of insert_eols on a raw sequence never holds two adjacent
\* eol tokens, the trailing eol included.
C1_NoAdjacentEols ==
    pass = 1 => \A i \in 1..(Len(out) - 1) : ~(IsEol(out, i) /\ IsEol(out, i + 1))

\* C2 as stated: every eol the engine emits, the trailing one included, is
\* emitted while no bracket forwarded so far is still open.
C2_NeverEolInsideBrackets ==
    pass = 1 =>
        \A i \in 1..Len(out) : IsEol(out, i) => Depth(SubSeq(out, 1, i - 1)) <= 0

\* C2 as amended: every eol emitted for a whitespace token is emitted at
\* depth 0; the trailing eol is appended whatever the depth.
C2_WhitespaceEolAtDepthZero ==
    EmittedForWhitespace => Depth(out) = 0

C2_Witness ==
    /\ pass = 1
    /\ pc = "eol_done"
    /\ \E i \in 1..(Len(out) - 1) : IsEol(out, i)
    /\ IsEol(out, Len(out))
    /\ Depth(out) > 0

\* "let x = 1\nlet y = 2\n..." as n Define nodes.
LetShapes(n) ==
    [i \in 1..n |->
        <<"Define", NameShape(VarNames[i]), IntShape(PyInt(<<Numerals[i]>>, 0))>>]

\* C3: n >= 2 top-level bindings, each followed by a line break, parse
\* through infer_eols and parse to the Block of the n Define nodes in order.
C3_LetLinesParseToBlock ==
    \A n \in 2..MaxLets :
        (source = Lex(LetLines(n, TRUE)) /\ pass = 1 /\ pc = "done") =>
            /\ result.err = "none"
            /\ Shape(result.node) = <<"Block", LetShapes(n)>>

\* C4: the engine run on its own output returns that output unchanged.
C4_Idempotent ==
    (pass = 2 /\ pc = "eol_done") => out = stream

C4_Witness ==
    /\ pass = 2
    /\ pc = "eol_done"
    /\ out = stream
    /\ Len(out) >= 3
    /\ \E i \in 1..(Len(out) - 1) : IsEol(out, i)
    /\ \E i \in DOMAIN source : source[i].type_ = "whitespace"

\* C5: "(1,\n 2)" gets no eol between its parentheses and parses to the
\* single node Pair(1, 2).
C5_GroupedPair ==
    (source = Lex(GroupSource) /\ pass = 1) =>
        /\ \A i \in DOMAIN out :
              IsEol(out, i) =>
                  \E j \in 1..(i - 1) : out[j].type_ = "rparen"
        /\ pc = "done" =>
              /\ result.err = "none"
              /\ Shape(result.node) = <<"Pair", IntShape(1), IntShape(2)>>

C5_Witness ==
    /\ source = Lex(GroupSource)
    /\ pass = 1
    /\ pc = "done"
    /\ result.err = "none"
    /\ result.node.kind = "Pair"
    /\ Len(ptoks) = 6

\* A source "1 op1 2 op2 3" whose first expression has been parsed.
ParsedChain(op1, op2) ==
    /\ Len(source) = 9
    /\ exprs # <<>>
    /\ source = Lex(OpChain(op1, op2))

\* (1 op1 2) op2 3
LeftNested(op1, op2) ==
    BinShape(op2, BinShape(op1, IntShape(1), IntShape(2)), IntShape(3))

\* 1 op1 (2 op2 3)
RightNested(op1, op2) ==
    BinShape(op1, IntShape(1), BinShape(op2, IntShape(2), IntShape(3)))

\* C6: of two infix operators the one with the higher precedence binds
\* tighter, on whichever side it stands.
C6_Precedence ==
    \A lo \in InfixOps, hi \in InfixOps :
        precedence(lo) < precedence(hi) =>
            /\ ParsedChain(lo, hi) => Shape(exprs[1]) = RightNested(lo, hi)
            /\ ParsedChain(hi, lo) => Shape(exprs[1]) = LeftNested(hi, lo)

C6_Witness ==
    /\ ParsedChain("plus", "asterisk")
    /\ pc = "done"
    /\ result.err = "none"
    /\ Shape(result.node) = RightNested("plus", "asterisk")

\* C7: a chain of one infix operator other than `/` groups to the left.
C7_LeftAssociative ==
    \A op \in InfixOps \ {"fslash"} :
        ParsedChain(op, op) => Shape(exprs[1]) = LeftNested(op, op)

C7_Witness ==
    /\ ParsedChain("dash", "dash")
    /\ pc = "done"
    /\ result.err = "none"
    /\ Shape(result.node) = LeftNested("dash", "dash")

\* C8: a chain of `/` groups to the right, and `/` is the only infix
\* operator whose chain does.
C8_DivisionRightAssociative ==
    \A op \in InfixOps :
        ParsedChain(op, op) =>
            (Shape(exprs[1]) = RightNested(op, op) <=> op = "fslash")

C8_Witness ==
    /\ ParsedChain("fslash", "fslash")
    /\ pc = "done"
    /\ result.err = "none"
    /\ Shape(result.node) = RightNested("fslash", "fslash")

\* Function(p_i, Function(p_i+1, ... Function(p_n, body))) without spans.
RECURSIVE CurriedShape(_, _, _)
CurriedShape(i, n, body) ==
    IF i > n THEN body
    ELSE <<"Function", NameShape(VarNames[i]), CurriedShape(i + 1, n, body)>>

\* C9: "let f(p1, ..., pn) = p1" parses to Define(f, Function(p1, ...
\* Function(pn, p1))), the first parameter outermost.
C9_Currying ==
    \A n \in 1..MaxParams, typed \in BOOLEAN :
        (source = Lex(DefSource(n, typed)) /\ exprs # <<>>) =>
            Shape(exprs[1]) =
                <<"Define", NameShape("f"),
                  CurriedShape(1, n, NameShape(VarNames[1]))>>

C9_Witness ==
    /\ source = Lex(DefSource(2, FALSE))
    /\ pc = "done"
    /\ result.err = "none"
    /\ result.node.kind = "Define"
    /\ result.node.value.kind = "Function"
    /\ result.node.value.body.kind = "Function"

\* The Block nodes of a tree all hold two or more expressions.
RECURSIVE NoSmallBlock(_)
NoSmallBlock(node) ==
    CASE node.kind \in {"Name", "Scalar", "Unit"} -> TRUE
      [] node.kind = "Apply" -> NoSmallBlock(node.func) /\ NoSmallBlock(node.arg)
      [] node.kind = "Function" -> NoSmallBlock(node.body)
      [] node.kind = "Define" -> NoSmallBlock(node.value)
      [] node.kind = "Cond" ->
           NoSmallBlock(node.pred) /\ NoSmallBlock(node.cons)
               /\ NoSmallBlock(node.else_)
      [] node.kind = "Block" ->
           /\ Len(node.body) >= 2
           /\ \A i \in DOMAIN node.body : NoSmallBlock(node.body[i])
      [] node.kind = "List" ->
           \A i \in DOMAIN node.elements : NoSmallBlock(node.elements[i])
      [] node.kind = "Pair" ->
           NoSmallBlock(node.first) /\ NoSmallBlock(node.second)

\* The body "1" "\n" ... "k" as k scalars.
BlockShapes(k) == [i \in 1..k |-> IntShape(PyInt(<<Numerals[i]>>, 0))]

Children(node) ==
    CASE node.kind = "Apply" -> <<node.func, node.arg>>
      [] node.kind = "Function" -> <<node.param, node.body>>
      [] node.kind = "Define" -> <<node.target, node.value>>
      [] node.kind = "Cond" -> <<node.pred, node.cons, node.else_>>
      [] node.kind = "Block" -> node.body
      [] node.kind = "List" -> node.elements
      [] node.kind = "Pair" -> <<node.first, node.second>>
      [] OTHER -> <<>>

\* parse has returned a node.
Parsed == pc = "done" /\ result.err = "none"

\* The span of every node with children is exactly the merge of theirs.
RECURSIVE SpansEqualChildren(_)
SpansEqualChildren(node) ==
    LET kids == Children(node)
    IN  \/ kids = <<>>
        \/ /\ \E i \in DOMAIN kids : node.span[1] = kids[i].span[1]
           /\ \E i \in DOMAIN kids : node.span[2] = kids[i].span[2]
           /\ \A i \in DOMAIN kids :
                 /\ node.span[1] <= kids[i].span[1]
                 /\ kids[i].span[2] <= node.span[2]
                 /\ SpansEqualChildren(kids[i])

\* The span of every node covers the spans of its children.
RECURSIVE SpansContainChildren(_)
SpansContainChildren(node) ==
    \A i \in DOMAIN Children(node) :
        /\ node.span[1] <= Children(node)[i].span[1]
        /\ Children(node)[i].span[2] <= node.span[2]
        /\ SpansContainChildren(Children(node)[i])

\* C11 as stated: in the tree parse returns, the span of every composite
\* node starts at the least start and ends at the greatest end of the
\* spans of its children.
C11_SpansEqualChildren == Parsed => SpansEqualChildren(result.node)

\* C11 as amended: in the tree parse returns, the span of every composite
\* node covers the span of each of its children; it is wider than their
\* merge where the node's own tokens (`let`, `if`, brackets, the closing
\* parenthesis of a call) lie outside them.
C11_SpansContainChildren == Parsed => SpansContainChildren(result.node)

C11_Witness ==
    /\ Parsed
    /\ source = Lex(DefSource(2, FALSE))
    /\ result.node.kind = "Define"
    /\ result.node.value.kind = "Function"
    /\ result.node.span[1] < result.node.target.span[1]
    /\ SpansContainChildren(result.node)

\* C12: a parse, of a stream that came through infer_eols or of one that
\* did not, returns a node or fails with UnexpectedTokenError or
\* UnexpectedEOFError, and in no other way.
C12_OnlyTwoErrorKinds ==
    pc = "done" =>
        result.err \in {"none", "UnexpectedTokenError", "UnexpectedEOFError"}

\* The binding powers parse_expr is called with.
CallPowers ==
    {0, precedence("comma") - 1} \cup
    {precedence(t) : t \in InfixTypes \cup {"bslash", "if_", "not_"}}

\* C13: wherever parse_expr is called in a token stream, it raises
\* UnexpectedEOFError if no token remains and UnexpectedTokenError if the
\* current token's type has no prefix parser; the error is raised at that
\* token, the cursor has not moved and no node is returned.
C13_ParseExprFailsFast ==
    pc \in {"parse", "done"} =>
        \A p \in 1..(Len(ptoks) + 1), power \in CallPowers :
            /\ p > Len(ptoks) =>
                  parse_expr(ptoks, p, power) =
                      [err |-> "UnexpectedEOFError", node |-> [kind |-> "<none>"],
                       pos |-> p]
            /\ (p <= Len(ptoks) /\ ptoks[p].type_ \notin PrefixTypes) =>
                  parse_expr(ptoks, p, power) =
                      [err |-> "UnexpectedTokenError",
                       node |-> [kind |-> "<none>"], pos |-> p]

C13_Witness ==
    /\ pc = "done"
    /\ result.err = "UnexpectedTokenError"
    /\ exprs = <<>>
    /\ result.pos = 1
    /\ ptoks[1].type_ = "plus"
    /\ parse_expr(ptoks, Len(ptoks) + 1, 0).err = "UnexpectedEOFError"

\* A span is a non-negative, non-decreasing interval.
ValidSpan(span) == 0 <= span[1] /\ span[1] <= span[2]

\* The types a type is built from.
TypeChildren(type_) ==
    CASE type_.kind = "TypeApply" -> <<type_.caller, type_.callee>>
      [] type_.kind = "TypeTuple" -> type_.elements
      [] OTHER -> <<>>

RECURSIVE TypeSpansValid(_)
TypeSpansValid(type_) ==
    /\ ValidSpan(type_.span)
    /\ \A i \in DOMAIN TypeChildren(type_) :
          TypeSpansValid(TypeChildren(type_)[i])

\* The span of a node, of its annotation and of everything below is valid.
RECURSIVE SpansValid(_)
SpansValid(node) ==
    /\ ValidSpan(node.span)
    /\ "type_" \in DOMAIN node => TypeSpansValid(node.type_)
    /\ \A i \in DOMAIN Children(node) : SpansValid(Children(node)[i])

\* C14: tokens with valid spans parse to a tree in which every span, of a
\* node or of a type annotation attached to a node, is valid.
C14_SpansValid ==
    (Parsed /\ \A i \in DOMAIN ptoks : ValidSpan(ptoks[i].span)) =>
        SpansValid(result.node)

\* Pair(1, Pair(2, ... Pair(n - 1, n))) without spans, from element i on.
RECURSIVE PairShape(_, _)
PairShape(i, n) ==
    IF i = n THEN IntShape(PyInt(<<Numerals[n]>>, 0))
    ELSE <<"Pair", IntShape(PyInt(<<Numerals[i]>>, 0)), PairShape(i + 1, n)>>

\* C15: outside brackets "1, 2, ..., n" parses to the Pair of its first
\* element and the Pair that the rest parses to.
C15_PairRightAssociative ==
    \A n \in 2..MaxElems :
        (Parsed /\ source = Lex(CommaChain(n))) =>
            Shape(result.node) = PairShape(1, n)

C15_Witness ==
    /\ Parsed
    /\ source = Lex(CommaChain(3))
    /\ result.node.kind = "Pair"
    /\ result.node.first.kind = "Scalar"
    /\ result.node.second.kind = "Pair"
    /\ result.node.second.second.kind = "Scalar"

\* Apply(...Apply(Apply(f, 1), 2)..., n) without spans.
RECURSIVE CallShape(_)
CallShape(n) ==
    IF n = 0 THEN NameShape("f")
    ELSE <<"Apply", CallShape(n - 1), IntShape(PyInt(<<Numerals[n]>>, 0))>>

\* C16: "f(1, 2, ..., n)" parses to the left fold of Apply over the
\* arguments in source order, no argument being a Pair, and the span of the
\* outermost Apply runs from the start of f to the end of the closing
\* parenthesis.
C16_ApplyLeftFold ==
    \A n \in 1..MaxElems :
        (Parsed /\ source = Lex(CallSource(n))) =>
            /\ Shape(result.node) = CallShape(n)
            /\ result.node.span =
                   <<source[1].span[1], source[Len(source)].span[2]>>

C16_Witness ==
    /\ Parsed
    /\ source = Lex(CallSource(3))
    /\ result.node.kind = "Apply"
    /\ result.node.func.kind = "Apply"
    /\ result.node.func.func.kind = "Apply"
    /\ result.node.func.func.func.kind = "Name"
    /\ result.node.span[2] = result.node.arg.span[2] + 1

\* The token most recently emitted, or the synthetic eol before any is.
LastEmitted ==
    IF out = <<>> THEN Token(<<0, 0>>, "eol", None) ELSE out[Len(out)]

\* The loop of insert_eols reads a whitespace token.
ReadsWhitespace ==
    /\ pc = "eol"
    /\ pos <= Len(stream)
    /\ stream[pos].type_ = "whitespace"
    /\ pos' = pos + 1

\* The four conditions on the whitespace token about to be read.
EolDue ==
    /\ Depth(out) = 0
    /\ \E i \in DOMAIN stream[pos].value : stream[pos].value[i] = "\n"
    /\ LastEmitted.type_ \in VALID_ENDS
    /\ (pos = Len(stream) \/ stream[pos + 1].type_ \in VALID_STARTS)

\* C17: reading a whitespace token emits an eol with that token's span if
\* the depth is 0, its text holds a line break, the last emitted token is a
\* valid ender and the next token is absent or a valid starter; otherwise
\* it emits nothing; whitespace before every other token emits nothing.
C17_EolIffConditions ==
    [][ReadsWhitespace =>
          /\ out' = IF EolDue
                    THEN Append(out, Token(stream[pos].span, "eol", None))
                    ELSE out
          /\ out = <<>> => out' = <<>>]_vars

C17_Witness ==
    /\ pc = "eol"
    /\ pass = 1
    /\ token.type_ = "whitespace"
    /\ HasLineBreak(token.value)
    /\ Depth(out) = 0
    /\ LastEmitted.type_ \in VALID_ENDS
    /\ pos <= Len(stream)
    /\ stream[pos].type_ \notin VALID_STARTS \cup {"whitespace"}

\* The input of insert_eols is exhausted and the code after its loop runs.
FinishesInput ==
    /\ pc = "eol"
    /\ pos > Len(stream)
    /\ pc' = "eol_done"

\* C18: once the input is exhausted one trailing eol, spanning the position
\* after the last emitted token, is appended if the last emitted token is
\* not an eol, and nothing is appended if it is one; nothing is emitted for
\* an empty input.
C18_TrailingEol ==
    [][FinishesInput =>
          /\ stream = <<>> => out' = <<>>
          /\ out # <<>> =>
                out' = IF out[Len(out)].type_ # "eol"
                       THEN Append(out,
                                   Token(<<out[Len(out)].span[2],
                                           out[Len(out)].span[2] + 1>>,
                                         "eol", None))
                       ELSE out]_vars

\* The tokens of a sequence whose type is not one of types, in order.
Without(toks, types) == SelectSeq(toks, LAMBDA t : t.type_ \notin types)

\* The part of its input the loop of insert_eols has read.
Read == SubSeq(stream, 1, pos - 1)

\* C19: the output of insert_eols holds no whitespace token, and without
\* the eol tokens the engine made it is the input read so far without its
\* whitespace tokens: the same tokens in the same order.  (A raw sequence
\* holds no eol, so every eol of the first pass is the engine's; on the
\* second pass the input holds no whitespace and every token is forwarded.)
C19_ForwardsAllButWhitespace ==
    /\ \A i \in DOMAIN out : out[i].type_ # "whitespace"
    /\ pass = 1 => Without(out, {"eol"}) = Without(Read, {"whitespace"})
    /\ (pass = 2 /\ pc = "eol") => out = Without(Read, {"whitespace"})

C19_Witness ==
    /\ pass = 1
    /\ pc = "eol_done"
    /\ source = Lex(LetLines(2, FALSE))
    /\ Len(Without(source, {"whitespace"})) = 8
    /\ Len(out) = 10
    /\ Without(out, {"eol"}) = Without(source, {"whitespace"})

\* C20: every token type with a prefix parser is a valid starter: a
\* whitespace token with a line break, read at depth 0 after a valid ender
\* and before a token that can begin an expression, yields an eol.
C20_PrefixTokensStartLines ==
    [][(/\ ReadsWhitespace
        /\ Depth(out) = 0
        /\ HasLineBreak(stream[pos].value)
        /\ LastEmitted.type_ \in VALID_ENDS
        /\ pos < Len(stream)
        /\ stream[pos + 1].type_ \in PrefixTypes)
       => out' = Append(out, Token(stream[pos].span, "eol", None))]_vars

\* C21: parse_parameters returns at least one parameter or raises: at a
\* token that is not a name it raises UnexpectedTokenError at that token;
\* so "\ -> x" and "let f() = x" are rejected with UnexpectedTokenError.
C21_ParametersNeverEmpty ==
    /\ pc \in {"parse", "done"} =>
          \A p \in DOMAIN ptoks :
              /\ ptoks[p].type_ # "name_" =>
                    parse_parameters(ptoks, p) =
                        [err |-> "UnexpectedTokenError",
                         node |-> [kind |-> "<none>"], pos |-> p]
              /\ parse_parameters(ptoks, p).err = "none" =>
                    parse_parameters(ptoks, p).node # <<>>
    /\ (pc = "done" /\ source \in {Lex(LambdaSource(0)), Lex(DefSource(0, FALSE))})
          => result.err = "UnexpectedTokenError"

C21_Witness ==
    /\ pc = "done"
    /\ source = Lex(LambdaSource(0))
    /\ result.err = "UnexpectedTokenError"
    /\ ptoks[result.pos].type_ = "arrow"
    /\ exprs = <<>>

\* C25: a chain that mixes `/` with `*` or `%`, the operators of its own
\* binding power, groups to the left whichever comes first.
C25_MixedChainsGroupLeft ==
    \A op \in {"asterisk", "percent"} :
        /\ ParsedChain("fslash", op) =>
              Shape(exprs[1]) = LeftNested("fslash", op)
        /\ ParsedChain(op, "fslash") =>
              Shape(exprs[1]) = LeftNested(op, "fslash")

\* The position in a token sequence of its first token of a type.
FirstOf(toks, type_) ==
    CHOOSE i \in DOMAIN toks :
        /\ toks[i].type_ = type_
        /\ \A j \in 1..(i - 1) : toks[j].type_ # type_

\* C26: in "let v : List[p1, ..., pn] = x" parse_generic_type, called at
\* `List`, returns a type application and leaves the cursor after the `]`,
\* and the source parses to a Define.
C26_GenericAnnotation ==
    \A n \in 1..MaxParams :
        (pc = "done" /\ source = Lex(GenericDefSource(n))) =>
            /\ parse_generic_type(ptoks, FirstOf(ptoks, "lbracket") - 1).pos
                   = FirstOf(ptoks, "rbracket") + 1
            /\ result.err = "none"
            /\ result.node.kind = "Define"

\* --------------------------------------------- typed.Function.curry

\* typed.Function(span, type_, param, body)
TypedFunction(span, type_, param, body) ==
    [kind |-> "Function", span |-> span, type_ |-> type_, param |-> param,
     body |-> body]

\* Function.curry of hanno/asts/typed.py.
RECURSIVE typed_curry(_, _, _)
typed_curry(span, params, body) ==
    IF params = <<>> THEN body
    ELSE IF Tail(params) # <<>>
    THEN TypedFunction(span,
                       TypeFunc(span, Head(params).type_, body.type_),
                       Head(params),
                       typed_curry(span, Tail(params), body))
    ELSE TypedFunction(span,
                       TypeFunc(span, Head(params).type_, body.type_),
                       Head(params), body)

\* The types of the parameters and bodies curry is given.
GroundTypes ==
    {TypeName(<<0, 1>>, <<"Int">>), TypeName(<<0, 1>>, <<"Bool">>),
     TypeName(<<0, 1>>, <<"Float">>)}

RECURSIVE TypedParams(_)
TypedParams(n) ==
    IF n = 0 THEN {<<>>}
    ELSE {Append(ps, TypedName(<<n, n + 1>>, t, <<VarNames[n]>>)) :
              ps \in TypedParams(n - 1), t \in GroundTypes}

\* The engine of the front end stays idle.
IdleEol ==
    /\ source = <<>>
    /\ pass = 0
    /\ stream = <<>>
    /\ pos = 1
    /\ out = <<>>
    /\ has_run = FALSE
    /\ paren_stack_size = 0
    /\ prev_token = Token(<<0, 0>>, "eol", None)
    /\ token = NoToken

InitCurry ==
    /\ pc = "curry"
    /\ IdleEol
    /\ IdleParser
    /\ scopes = <<>>
    /\ outcome = NoOutcome
    /\ curry_args \in
          [span : {<<0, MaxParams + 2>>},
           params : UNION {TypedParams(n) : n \in 0..MaxParams},
           body : {TypedName(<<MaxParams + 1, MaxParams + 2>>, t, <<"b">>) :
                       t \in GroundTypes}]
    /\ curry_result = NoNode

\* The call typed.Function.curry(span, params, body).
Curry ==
    /\ pc = "curry"
    /\ pc' = "curried"
    /\ curry_result' =
           typed_curry(curry_args.span, curry_args.params, curry_args.body)
    /\ UNCHANGED <<source, pass, eolVars, parseVars, scopeVars, curry_args>>

NextCurry == Curry

SpecCurry == InitCurry /\ [][NextCurry]_vars

\* The type of every Function node of a curried function is the function
\* type from the type of its parameter to the type of its body node.
RECURSIVE FunctionTypesFit(_)
FunctionTypesFit(node) ==
    (node.kind = "Function") =>
        /\ node.type_.kind = "TypeApply"
        /\ node.type_.caller.kind = "TypeApply"
        /\ node.type_.caller.callee = node.param.type_
        /\ node.type_.callee = node.body.type_
        /\ FunctionTypesFit(node.body)

\* C27: typed.Function.curry over one or more parameters gives every
\* Function node it builds the type from its own parameter's type to the
\* type of its own body node, the nested Function for all but the last.
C27_CurriedTypes ==
    (pc = "curried" /\ curry_args.params # <<>>) =>
        /\ curry_result.kind = "Function"
        /\ FunctionTypesFit(curry_result)

\* ------------------------------------------------- hasdrubal/scope.py

\* The names and the values bound in the scopes.
ScopeNames == {"x", "y"}

ScopeValues == {1, 2}

\* Scope(parent): `_data` is empty; parent is an index into scopes, 0 for None.
NewScope(parent) ==
    [data |-> [n \in ScopeNames |-> NoValue], parent |-> parent]

\* Scope.__contains__
RECURSIVE contains(_, _, _)
contains(sc, i, name) ==
    \/ sc[i].data[name] # NoValue
    \/ (sc[i].parent # 0 /\ contains(sc, sc[i].parent, name))

\* Scope.__getitem__: the value, or the exception raised.
RECURSIVE getitem(_, _, _)
getitem(sc, i, name) ==
    IF sc[i].data[name] # NoValue
    THEN [raised |-> "none", ret |-> sc[i].data[name]]
    ELSE IF sc[i].parent # 0 THEN getitem(sc, sc[i].parent, name)
    ELSE [raised |-> "UndefinedNameError", ret |-> NoValue]

\* Scope.get
get(sc, i, name, default) ==
    IF sc[i].data[name] # NoValue
    THEN [raised |-> "none", ret |-> sc[i].data[name]]
    ELSE IF sc[i].parent # 0 THEN getitem(sc, sc[i].parent, name)
    ELSE [raised |-> "none", ret |-> default]

\* Scope.__setitem__: the scopes after the assignment.
RECURSIVE setitem(_, _, _, _)
setitem(sc, i, name, value) ==
    IF sc[i].parent # 0 /\ contains(sc, sc[i].parent, name)
    THEN setitem(sc, sc[i].parent, name, value)
    ELSE [sc EXCEPT ![i].data[name] = value]

\* Scope.__delitem__: the scopes after it, or the exception raised;
\* `del self._data[name.value]` raises KeyError for a missing key.
RECURSIVE delitem(_, _, _)
delitem(sc, i, name) ==
    IF contains(sc, i, name)
    THEN IF sc[i].data[name] # NoValue
         THEN [raised |-> "none",
               scopes |-> [sc EXCEPT ![i].data[name] = NoValue]]
         ELSE [raised |-> "KeyError", scopes |-> sc]
    ELSE IF sc[i].parent # 0 THEN delitem(sc, sc[i].parent, name)
    ELSE [raised |-> "none", scopes |-> sc]

\* The front end stays idle.
InitScope ==
    /\ pc = "scope"
    /\ IdleEol
    /\ IdleParser
    /\ curry_args = NoCurry
    /\ curry_result = NoNode
    /\ scopes = <<NewScope(0)>>
    /\ outcome = NoOutcome

\* Scope.down on the innermost scope (codegen's _push_scope).
Down ==
    /\ pc = "scope"
    /\ Len(scopes) < MaxDepth
    /\ scopes' = Append(scopes, NewScope(Len(scopes)))
    /\ outcome' = [NoOutcome EXCEPT !.op = "down", !.scope = Len(scopes)]
    /\ UNCHANGED <<frontVars, curryVars>>

\* scope[name] = value
SetItem ==
    /\ pc = "scope"
    /\ \E i \in DOMAIN scopes, name \in ScopeNames, value \in ScopeValues :
          /\ scopes' = setitem(scopes, i, name, value)
          /\ outcome' = [NoOutcome EXCEPT !.op = "set", !.scope = i,
                                          !.name = name, !.value = value]
    /\ UNCHANGED <<frontVars, curryVars>>

\* del scope[name]
DelItem ==
    /\ pc = "scope"
    /\ \E i \in DOMAIN scopes, name \in ScopeNames :
          /\ scopes' = delitem(scopes, i, name).scopes
          /\ outcome' = [NoOutcome EXCEPT
                            !.op = "del", !.scope = i, !.name = name,
                            !.raised = delitem(scopes, i, name).raised]
    /\ UNCHANGED <<frontVars, curryVars>>

\* scope.get(name, default)
Get ==
    /\ pc = "scope"
    /\ \E i \in DOMAIN scopes, name \in ScopeNames,
          default \in {NoValue} \cup ScopeValues :
          outcome' = [NoOutcome EXCEPT
                         !.op = "get", !.scope = i, !.name = name,
                         !.default = default,
                         !.raised = get(scopes, i, name, default).raised,
                         !.ret = get(scopes, i, name, default).ret]
    /\ UNCHANGED scopes
    /\ UNCHANGED <<frontVars, curryVars>>

NextScope ==
    \/ Down
    \/ SetItem
    \/ DelItem
    \/ Get

SpecScope == InitScope /\ [][NextScope]_vars

\* The nearest scope of the parent chain of scope i that defines name.
RECURSIVE Nearest(_, _, _)
Nearest(sc, i, name) ==
    IF sc[i].data[name] # NoValue THEN i ELSE Nearest(sc, sc[i].parent, name)

\* C28: right after `scope[name] = v`, `scope[name]` on the same scope
\* returns v.
C28_ReadYourWrites ==
    outcome.op = "set" =>
        getitem(scopes, outcome.scope, outcome.name) =
            [raised |-> "none", ret |-> outcome.value]

\* C29: `del scope[name]`, name being defined in the scope or in one of its
\* ancestors, does not raise and removes the binding from the nearest scope
\* that defines name, every other binding staying as it was.
C29_DeleteFromNearest ==
    [][(outcome'.op = "del" /\
        contains(scopes, outcome'.scope, outcome'.name))
       => /\ outcome'.raised = "none"
          /\ scopes' =
                [scopes EXCEPT
                    ![Nearest(scopes, outcome'.scope, outcome'.name)]
                        .data[outcome'.name] = NoValue]]_vars

\* C30: scope.get(name, default) does not raise; it returns the value of
\* the nearest scope that defines name, and default if none does.
C30_GetNeverRaises ==
    outcome.op = "get" =>
        /\ outcome.raised = "none"
        /\ outcome.ret =
              IF contains(scopes, outcome.scope, outcome.name)
              THEN scopes[Nearest(scopes, outcome.scope, outcome.name)]
                       .data[outcome.name]
              ELSE outcome.default

\* C22: when infer_eols of hasdrubal/lex.py reads a `newline` that is the
\* last token, after a valid ender and at depth 0, it yields an eol and
\* does not raise.
C22_FinalNewlineYieldsEol ==
    [][(/\ pc = "infer"
        /\ pos = Len(stream)
        /\ stream[pos].type_ = "newline"
        /\ prev_token.type_ \in valid_enders
        /\ paren_stack_size = 0)
       => /\ pc' # "infer_raised"
          /\ out' # <<>>
          /\ IsEol(out', Len(out'))]_vars

\* C23: the output of infer_eols of hasdrubal/lex.py holds no `newline`.
C23_NoNewlineInOutput ==
    \A i \in DOMAIN out : out[i].type_ # "newline"

\* C24: in infer_eols of hasdrubal/lex.py the stack size is the number of
\* openers minus closers among the tokens forwarded so far, and no eol is
\* put at a `newline` that an unclosed `(` or `[` encloses.
C24_StackSizeIsDepth ==
    pc = "infer" =>
        /\ paren_stack_size = Depth(out)
        /\ \A i \in DOMAIN out :
              IsEol(out, i) => Depth(SubSeq(out, 1, i - 1)) <= 0

====
